---- MODULE Spec2Model ----
(***************************************************************************)
(* A model of the mempool-engine allocators: the lock-free slab            *)
(* (slab.c), the bump arena and the thread-tiered pool (pool.c).           *)
(* Every atomic access of the C code is one step of the calling thread;    *)
(* plain local computation is folded into the step of the atomic access    *)
(* that follows it.                                                        *)
(***************************************************************************)
EXTENDS Integers, Sequences, FiniteSets, TLC

(* ------------------------------------------------------------------ *)
(* Bounds of the model                                                 *)
(* ------------------------------------------------------------------ *)

\* Threads of the concurrent specifications.
NThreads == 2
\* Largest num_blocks a slab is created with.
MaxBlocks == 2
\* num_blocks of the slab the concurrent runs share.
ConcBlocks == 2
\* Blocks one caller holds at a time in the concurrent slab runs
\* (1: every thread performs alloc/free pairs).
MaxHeld == 1
\* Width of size_t in the model, in bits.
SizeBits == 10
\* Cache lines of the arena's buffer.
ArenaLines == 3
\* Successful arena_alloc calls of one run.
MaxArenaAllocs == 4
\* Largest blocks_per_thread a pool is created with.
MaxPerThread == 2
\* Largest total_blocks of the pool one thread uses.
PoolBlocks == 2
\* total_blocks of the pool the concurrent runs share.
PoolConcBlocks == 3
\* Blocks one caller holds at a time in the concurrent pool runs.
PoolMaxHeld == 2
\* pool_alloc calls counted in a run of alternating calls.
MaxRun == 2
\* Pools one thread uses in a run on several pools.
NPools == 2

(* ------------------------------------------------------------------ *)
(* Program constants                                                   *)
(* ------------------------------------------------------------------ *)

CACHE_LINE_SIZE == 64
FREE_MARKER == "FREE_MARKER"
ALLOCATED_MARKER == "ALLOCATED_MARKER"
NULL == 0
\* The address aligned_alloc returned for the slab's buffer.
SlabMemory == 128
\* The address aligned_alloc returned for the arena's buffer.
ArenaMemory == 2048

SizeMod == 2 ^ SizeBits
Threads == 1 .. NThreads

\* (sz + CACHE_LINE_SIZE - 1) & ~(CACHE_LINE_SIZE - 1) on size_t.
align_size_to_cache_line(sz) ==
    LET s == (sz + CACHE_LINE_SIZE - 1) % SizeMod
    IN  s - (s % CACHE_LINE_SIZE)

VARIABLES
    \* slab_allocator_t
    memory, block_size, num_blocks, free_count, free_list, free_idx,
    \* block_metadata_t, per block index
    magic, isfree,
    \* per thread: position in the running call, its argument, its locals
    pc, ptr, old_idx, new_idx, block_idx, ret,
    \* history: the blocks each caller holds, the blocks slab_alloc returned
    \* to each caller and that caller has not successfully freed, whether the
    \* caller of a running slab_free was the only holder of its argument;
    \* in the single-thread runs the last two completed calls, the pointers
    \* successfully freed since the last slab_alloc (pool_alloc) call, and the
    \* results of the slab_alloc calls made before the first slab_free
    held, issued, excl, logging, snap, log, freed, fresh, fresh_run,
    \* arena_allocator_t: capacity, offset (memory is ArenaMemory)
    capacity, offset,
    \* per thread: position in arena_alloc, its aligned size, old_offset
    apc, size, old_offset,
    \* history: the successful arena_alloc calls since the last arena_reset,
    \* each with the pointer returned and the aligned size, in the order of
    \* their compare-and-swaps; in the single-thread runs the size each
    \* running arena_alloc was asked for and the last two completed arena calls
    allocs, asked, alog,
    \* mempool_t: blocks_per_thread (global_slab is the slab above)
    blocks_per_thread,
    \* per thread: the thread_local_cache_t registered under tls_key
    tls,
    \* history: the way each running pool call takes ("cache", "slab",
    \* "nocache", "reject"); in the single-thread runs the pool before the
    \* running call, the last completed pool call, and the run of
    \* alternating pool_alloc / pool_free calls made since pool_create
    path, psnap, plog, alt,
    \* pool.c's statics: tls_initialized, and tls_key as "unset" until
    \* pthread_key_create has stored a key in it
    tls_initialized, tls_key,
    \* per thread: position on the way from its first pool_create into its
    \* pool calls
    bpc,
    \* history: the pthread_key_create calls made so far, the threads that
    \* passed tls_key to pthread_getspecific / pthread_setspecific while it
    \* was unset, and the engine the threads of a run call into
    key_creates, early, engine,
    \* the pools of the runs in which one thread uses several pools: per
    \* pool its state ("none", "live", "destroyed"), blocks_per_thread and
    \* global_slab
    pools,
    \* history of those runs: the blocks the caller holds, each with the pool
    \* whose pool_alloc returned it; the last completed pool call; for each
    \* occupied slot of the cache, the pool whose pool_free filled it
    taken, mlast, parked

slabVars == <<memory, block_size, num_blocks, free_count, free_list, free_idx,
              magic, isfree>>
threadVars == <<pc, ptr, old_idx, new_idx, block_idx, ret>>
histVars == <<held, issued, excl, logging, snap, log, freed, fresh,
              fresh_run>>
arenaVars == <<capacity, offset, apc, size, old_offset, allocs, asked,
               alog>>
poolVars == <<blocks_per_thread, tls, path, psnap, plog, alt>>
multiVars == <<pools, taken, mlast, parked>>
envVars == <<tls_initialized, tls_key, bpc, key_creates, early, engine,
             multiVars>>
vars == <<slabVars, threadVars, histVars, arenaVars, poolVars, envVars>>

(* ------------------------------------------------------------------ *)
(* slab_create                                                         *)
(* ------------------------------------------------------------------ *)

\* slab_create with the free-index stack one entry short.
slab_create_short(bs, nb) ==
    IF bs = 0 \/ nb = 0
    THEN [ok |-> FALSE]
    ELSE [ok |-> TRUE,
          memory |-> SlabMemory,
          block_size |-> align_size_to_cache_line(bs),
          num_blocks |-> nb,
          free_count |-> nb,
          free_idx |-> nb - 1,
          free_list |-> [i \in 0 .. nb - 1 |-> i],
          magic |-> [i \in 0 .. nb - 1 |-> FREE_MARKER],
          isfree |-> [i \in 0 .. nb - 1 |-> 1]]

\* slab_create filling the free-index stack in descending order.
slab_create_reversed(bs, nb) ==
    IF bs = 0 \/ nb = 0
    THEN [ok |-> FALSE]
    ELSE [ok |-> TRUE,
          memory |-> SlabMemory,
          block_size |-> align_size_to_cache_line(bs),
          num_blocks |-> nb,
          free_count |-> nb,
          free_idx |-> nb,
          free_list |-> [i \in 0 .. nb - 1 |-> nb - 1 - i],
          magic |-> [i \in 0 .. nb - 1 |-> FREE_MARKER],
          isfree |-> [i \in 0 .. nb - 1 |-> 1]]

\* The slab slab_create(bs, nb) builds, or [ok |-> FALSE] for its NULL.
slab_create(bs, nb) ==
    IF bs = 0 \/ nb = 0
    THEN [ok |-> FALSE]
    ELSE [ok |-> TRUE,
          memory |-> SlabMemory,
          block_size |-> align_size_to_cache_line(bs),
          num_blocks |-> nb,
          free_count |-> nb,
          free_idx |-> nb,
          free_list |-> [i \in 0 .. nb - 1 |-> i],
          magic |-> [i \in 0 .. nb - 1 |-> FREE_MARKER],
          isfree |-> [i \in 0 .. nb - 1 |-> 1]]

\* The shared state of the slab, as one value.
SlabState ==
    [free_idx |-> free_idx, free_list |-> free_list, magic |-> magic,
     isfree |-> isfree, free_count |-> free_count]

\* slab_stats: free_blocks = free_count, used_blocks = num_blocks - free_blocks.
slab_stats_free == free_count
slab_stats_used == (num_blocks - free_count) % SizeMod

\* The address of block i.
BlockPtr(i) == memory + i * block_size

\* The arena arena_create(cap) builds, or [ok |-> FALSE] for its NULL.
arena_create(cap) ==
    IF cap = 0
    THEN [ok |-> FALSE]
    ELSE [ok |-> TRUE, capacity |-> align_size_to_cache_line(cap), offset |-> 0]

\* The arena after arena_create, no thread in a call.
ArenaFields(caps) ==
    /\ \E c \in caps :
         LET a == arena_create(c)
         IN  /\ a.ok
             /\ capacity = a.capacity
             /\ offset = a.offset
    /\ apc = [t \in Threads |-> "idle"]
    /\ size = [t \in Threads |-> 0]
    /\ old_offset = [t \in Threads |-> 0]
    /\ allocs = <<>>
    /\ asked = [t \in Threads |-> 0]
    /\ alog = <<>>

\* No call has been made in a run on several pools.
NoCall == [op |-> "none", pool |-> 0, arg |-> NULL, ret |-> NULL, via |-> 0]

\* The run is on the one pool (slab, arena) of the variables above.
OnePool ==
    /\ pools = <<>>
    /\ taken = {}
    /\ mlast = NoCall
    /\ parked = <<>>

\* The arena of a run whose threads call into any engine.
ArenaInit(caps) ==
    /\ ArenaFields(caps)
    /\ engine = "any"
    /\ OnePool

SlabInit(sizes, counts, lg) ==
    /\ \E bs \in sizes, nb \in counts :
         LET s == slab_create(bs, nb)
         IN  /\ s.ok
             /\ memory = s.memory
             /\ block_size = s.block_size
             /\ num_blocks = s.num_blocks
             /\ free_count = s.free_count
             /\ free_idx = s.free_idx
             /\ free_list = s.free_list
             /\ magic = s.magic
             /\ isfree = s.isfree
    /\ pc = [t \in Threads |-> "idle"]
    /\ ptr = [t \in Threads |-> NULL]
    /\ old_idx = [t \in Threads |-> 0]
    /\ new_idx = [t \in Threads |-> 0]
    /\ block_idx = [t \in Threads |-> 0]
    /\ ret = [t \in Threads |-> NULL]
    /\ held = [t \in Threads |-> {}]
    /\ issued = [t \in Threads |-> {}]
    /\ excl = [t \in Threads |-> FALSE]
    /\ logging = lg
    /\ snap = SlabState
    /\ log = <<>>
    /\ freed = {}
    /\ fresh = TRUE
    /\ fresh_run = <<>>

\* pthread_getspecific(tls_key) of a thread that has no cache yet.
NoCache ==
    [present |-> FALSE, cache_size |-> 0, cache_count |-> 0,
     local_cache |-> [i \in {} |-> NULL]]

\* The pool pool_create(bs, bpt, tb) builds, or [ok |-> FALSE] for its NULL.
pool_create(bs, bpt, tb) ==
    IF bs = 0 \/ bpt = 0 \/ tb = 0
    THEN [ok |-> FALSE]
    ELSE LET s == slab_create(bs, tb)
         IN  IF ~s.ok
             THEN [ok |-> FALSE]
             ELSE [ok |-> TRUE, global_slab |-> s, block_size |-> bs,
                   blocks_per_thread |-> bpt]

\* The run of alternating calls that no call has started or that a call
\* has broken.
NoRun == [ok |-> FALSE, expect |-> "alloc", first |-> NULL, last |-> NULL,
          n |-> 0]

\* pool.c's statics once a pool_create has returned: init_tls has run, the
\* key exists, every thread calls into a pool that exists.
TlsReady ==
    /\ tls_initialized = 1
    /\ tls_key = "created"
    /\ bpc = [t \in Threads |-> "live"]
    /\ key_creates = 1
    /\ early = [t \in Threads |-> FALSE]

\* The pool's own fields and the threads' caches after pool_create: no
\* thread has a cache.
CacheFields(bpt, lg) ==
    /\ blocks_per_thread = bpt
    /\ tls = [t \in Threads |-> NoCache]
    /\ path = [t \in Threads |-> "none"]
    /\ psnap = [slab |-> SlabState, cache |-> NoCache]
    /\ plog = <<>>
    /\ alt = [NoRun EXCEPT !.ok = lg]

\* The pool and pool.c's statics after pool_create.
PoolFields(bpt, lg) ==
    /\ TlsReady
    /\ CacheFields(bpt, lg)

PoolInit(sizes, bpts, totals, lg) ==
    \E bs \in sizes, bpt \in bpts, tb \in totals :
        LET pl == pool_create(bs, bpt, tb)
        IN  /\ pl.ok
            /\ SlabInit({bs}, {tb}, lg)
            /\ PoolFields(pl.blocks_per_thread, lg)

(* ------------------------------------------------------------------ *)
(* Callers                                                             *)
(* ------------------------------------------------------------------ *)

\* A thread enters slab_alloc (alloc is not NULL).
CallAlloc(t) ==
    /\ pc[t] = "idle"
    /\ pc' = [pc EXCEPT ![t] = "a_load"]
    /\ snap' = IF logging THEN SlabState ELSE snap
    /\ freed' = {}
    /\ UNCHANGED <<envVars,
                   arenaVars, poolVars, slabVars, ptr, old_idx, new_idx,
                   block_idx, ret,
                   held, issued, excl, logging, log, fresh, fresh_run>>

\* A thread enters slab_free(alloc, p).
CallFree(t, p) ==
    /\ pc[t] = "idle"
    /\ pc' = [pc EXCEPT ![t] = "f_magic"]
    /\ ptr' = [ptr EXCEPT ![t] = p]
    /\ excl' = [excl EXCEPT ![t] =
                  /\ p \in held[t]
                  /\ \A u \in Threads \ {t} : p \notin held[u]]
    /\ snap' = IF logging THEN SlabState ELSE snap
    /\ fresh' = FALSE
    /\ fresh_run' = IF fresh /\ Len(fresh_run) <= num_blocks
                    THEN <<>> ELSE fresh_run
    /\ UNCHANGED <<envVars, arenaVars, poolVars, slabVars, old_idx, new_idx,
                   block_idx, ret,
                   held, issued, logging, log, freed>>

\* The last two completed calls, kept in the single-thread runs: each with
\* its argument, its result, the slab before and after it, whether a caller
\* held the argument and whether the argument was already freed since the
\* last slab_alloc.
Logged(op, p, r, post) ==
    LET e == [op |-> op, arg |-> p, ret |-> r, pre |-> snap, post |-> post,
              wasHeld |-> p \in UNION {held[u] : u \in Threads},
              refree |-> p \in freed]
    IN  IF ~logging THEN log
        ELSE IF log = <<>> THEN <<e>>
        ELSE <<log[Len(log)], e>>

\* The results of the slab_alloc calls made before the first slab_free, up
\* to num_blocks + 1 of them (a shorter run is forgotten at the first
\* slab_free).
FreshRun(r) ==
    IF logging /\ fresh /\ Len(fresh_run) < num_blocks + 1
    THEN Append(fresh_run, r)
    ELSE fresh_run

\* The call of thread t ends with result r: the thread is at its return.
Done(t, kind, r) ==
    /\ pc' = [pc EXCEPT ![t] = kind]
    /\ ret' = [ret EXCEPT ![t] = r]
    /\ old_idx' = [old_idx EXCEPT ![t] = 0]
    /\ new_idx' = [new_idx EXCEPT ![t] = 0]
    /\ block_idx' = [block_idx EXCEPT ![t] = 0]

\* The caller receives slab_alloc's result.
ReturnAlloc(t) ==
    /\ pc[t] = "a_done"
    /\ pc' = [pc EXCEPT ![t] = "idle"]
    /\ ret' = [ret EXCEPT ![t] = NULL]
    /\ held' = [held EXCEPT ![t] =
                  IF ret[t] = NULL THEN @ ELSE @ \cup {ret[t]}]
    /\ issued' = [issued EXCEPT ![t] =
                    IF ret[t] = NULL THEN @ ELSE @ \cup {ret[t]}]
    /\ log' = Logged("alloc", NULL, ret[t], SlabState)
    /\ fresh_run' = FreshRun(ret[t])
    /\ UNCHANGED <<envVars, arenaVars, poolVars,
                   slabVars, ptr, old_idx, new_idx, block_idx, excl, logging,
                   snap, freed, fresh>>

\* The caller receives slab_free's result; it gives the pointer up.
ReturnFree(t) ==
    /\ pc[t] = "f_done"
    /\ pc' = [pc EXCEPT ![t] = "idle"]
    /\ ret' = [ret EXCEPT ![t] = NULL]
    /\ ptr' = [ptr EXCEPT ![t] = NULL]
    /\ excl' = [excl EXCEPT ![t] = FALSE]
    /\ held' = [held EXCEPT ![t] = @ \ {ptr[t]}]
    /\ issued' = [issued EXCEPT ![t] =
                    IF ret[t] = 0 THEN @ \ {ptr[t]} ELSE @]
    /\ log' = Logged("free", ptr[t], ret[t], SlabState)
    /\ freed' = IF logging /\ ret[t] = 0 THEN freed \cup {ptr[t]} ELSE freed
    /\ UNCHANGED <<envVars, arenaVars, poolVars,
                   slabVars, old_idx, new_idx, block_idx, logging, snap,
                   fresh, fresh_run>>

(* ------------------------------------------------------------------ *)
(* slab_alloc                                                          *)
(* ------------------------------------------------------------------ *)

\* old_idx = atomic_load(&free_idx); if (old_idx == 0) return NULL;
\* new_idx = old_idx - 1
slab_alloc_load(t) ==
    /\ pc[t] = "a_load"
    /\ IF free_idx = 0
       THEN Done(t, "a_done", NULL)
       ELSE /\ pc' = [pc EXCEPT ![t] = "a_cas"]
            /\ old_idx' = [old_idx EXCEPT ![t] = free_idx]
            /\ new_idx' = [new_idx EXCEPT ![t] = free_idx - 1]
            /\ UNCHANGED <<envVars, arenaVars, poolVars, block_idx, ret>>
    /\ UNCHANGED <<envVars, arenaVars, poolVars, slabVars, ptr, histVars>>

\* if (!atomic_compare_exchange_strong(&free_idx, &old_idx, new_idx))
\*     return slab_alloc(alloc);
slab_alloc_cas(t) ==
    /\ pc[t] = "a_cas"
    /\ IF free_idx = old_idx[t]
       THEN /\ free_idx' = new_idx[t]
            /\ pc' = [pc EXCEPT ![t] = "a_read"]
       ELSE /\ pc' = [pc EXCEPT ![t] = "a_load"]
            /\ UNCHANGED free_idx
    /\ UNCHANGED <<envVars, arenaVars, poolVars,
                   memory, block_size, num_blocks, free_count, free_list,
                   magic, isfree, ptr, old_idx, new_idx, block_idx, ret,
                   histVars>>

\* slab_alloc reading the bottom entry of the free-index stack.
slab_alloc_read_bottom(t) ==
    /\ pc[t] = "a_read"
    /\ LET b == free_list[0]
       IN  IF b < 0 \/ b >= num_blocks
           THEN Done(t, "a_done", NULL)
           ELSE /\ pc' = [pc EXCEPT ![t] = "a_magic"]
                /\ block_idx' = [block_idx EXCEPT ![t] = b]
                /\ UNCHANGED <<envVars,
                               arenaVars, poolVars, old_idx, new_idx, ret>>
    /\ UNCHANGED <<envVars, arenaVars, poolVars, slabVars, ptr, histVars>>

\* block_idx = atomic_load(&free_list[new_idx]); range check
slab_alloc_read(t) ==
    /\ pc[t] = "a_read"
    /\ LET b == free_list[new_idx[t]]
       IN  IF b < 0 \/ b >= num_blocks
           THEN Done(t, "a_done", NULL)
           ELSE /\ pc' = [pc EXCEPT ![t] = "a_magic"]
                /\ block_idx' = [block_idx EXCEPT ![t] = b]
                /\ UNCHANGED <<envVars,
                               arenaVars, poolVars, old_idx, new_idx, ret>>
    /\ UNCHANGED <<envVars, arenaVars, poolVars, slabVars, ptr, histVars>>

\* atomic_store(&meta->magic, ALLOCATED_MARKER)
slab_alloc_magic(t) ==
    /\ pc[t] = "a_magic"
    /\ magic' = [magic EXCEPT ![block_idx[t]] = ALLOCATED_MARKER]
    /\ pc' = [pc EXCEPT ![t] = "a_free"]
    /\ UNCHANGED <<envVars, arenaVars, poolVars,
                   memory, block_size, num_blocks, free_count, free_list,
                   free_idx, isfree, ptr, old_idx, new_idx, block_idx, ret,
                   histVars>>

\* atomic_store(&meta->free, 0)
slab_alloc_free(t) ==
    /\ pc[t] = "a_free"
    /\ isfree' = [isfree EXCEPT ![block_idx[t]] = 0]
    /\ pc' = [pc EXCEPT ![t] = "a_count"]
    /\ UNCHANGED <<envVars, arenaVars, poolVars,
                   memory, block_size, num_blocks, free_count, free_list,
                   free_idx, magic, ptr, old_idx, new_idx, block_idx, ret,
                   histVars>>

\* slab_alloc returning without the decrement of free_count.
slab_alloc_count_skipped(t) ==
    /\ pc[t] = "a_count"
    /\ Done(t, "a_done", BlockPtr(block_idx[t]))
    /\ UNCHANGED <<envVars, arenaVars, poolVars, slabVars, ptr, histVars>>

\* atomic_fetch_sub(&free_count, 1); return ptr
slab_alloc_count(t) ==
    /\ pc[t] = "a_count"
    /\ free_count' = (free_count - 1) % SizeMod
    /\ Done(t, "a_done", BlockPtr(block_idx[t]))
    /\ UNCHANGED <<envVars, arenaVars, poolVars,
                   memory, block_size, num_blocks, free_list, free_idx,
                   magic, isfree, ptr, histVars>>

(* ------------------------------------------------------------------ *)
(* slab_free                                                           *)
(* ------------------------------------------------------------------ *)

\* slab_free's index computation without the block-grid check.
slab_free_index_nogrid(p) ==
    IF p = NULL \/ p < memory THEN -1
    ELSE IF (p - memory) \div block_size >= num_blocks THEN -1
    ELSE (p - memory) \div block_size

\* The block index slab_free computes for p, or -1 where it returns -1
\* before it reads any metadata: !ptr, ptr < memory, an offset off the block
\* grid, an index >= num_blocks.
slab_free_index(p) ==
    IF p = NULL \/ p < memory THEN -1
    ELSE IF (p - memory) % block_size # 0 THEN -1
    ELSE IF (p - memory) \div block_size >= num_blocks THEN -1
    ELSE (p - memory) \div block_size

\* slab_free without the checks of the block's magic and free flag.
slab_free_magic_unchecked(t) ==
    /\ pc[t] = "f_magic"
    /\ LET b == slab_free_index(ptr[t])
       IN  IF b = -1
           THEN Done(t, "f_done", -1)
           ELSE /\ pc' = [pc EXCEPT ![t] = "f_setfree"]
                /\ block_idx' = [block_idx EXCEPT ![t] = b]
                /\ UNCHANGED <<envVars,
                               arenaVars, poolVars, old_idx, new_idx, ret>>
    /\ UNCHANGED <<envVars, arenaVars, poolVars, slabVars, ptr, histVars>>

\* The pointer checks, then magic = atomic_load(&meta->magic);
\* if (magic != ALLOCATED_MARKER) return -1
slab_free_magic(t) ==
    /\ pc[t] = "f_magic"
    /\ LET b == slab_free_index(ptr[t])
       IN  IF b = -1 \/ magic[b] # ALLOCATED_MARKER
           THEN Done(t, "f_done", -1)
           ELSE /\ pc' = [pc EXCEPT ![t] = "f_free"]
                /\ block_idx' = [block_idx EXCEPT ![t] = b]
                /\ UNCHANGED <<envVars,
                               arenaVars, poolVars, old_idx, new_idx, ret>>
    /\ UNCHANGED <<envVars, arenaVars, poolVars, slabVars, ptr, histVars>>

\* if (atomic_load(&meta->free)) return -1
slab_free_free(t) ==
    /\ pc[t] = "f_free"
    /\ IF isfree[block_idx[t]] # 0
       THEN Done(t, "f_done", -1)
       ELSE /\ pc' = [pc EXCEPT ![t] = "f_setfree"]
            /\ UNCHANGED <<envVars,
                           arenaVars, poolVars, old_idx, new_idx, block_idx,
                           ret>>
    /\ UNCHANGED <<envVars, arenaVars, poolVars, slabVars, ptr, histVars>>

\* atomic_store(&meta->free, 1)
slab_free_setfree(t) ==
    /\ pc[t] = "f_setfree"
    /\ isfree' = [isfree EXCEPT ![block_idx[t]] = 1]
    /\ pc' = [pc EXCEPT ![t] = "f_setmagic"]
    /\ UNCHANGED <<envVars, arenaVars, poolVars,
                   memory, block_size, num_blocks, free_count, free_list,
                   free_idx, magic, ptr, old_idx, new_idx, block_idx, ret,
                   histVars>>

\* atomic_store(&meta->magic, FREE_MARKER)
slab_free_setmagic(t) ==
    /\ pc[t] = "f_setmagic"
    /\ magic' = [magic EXCEPT ![block_idx[t]] = FREE_MARKER]
    /\ pc' = [pc EXCEPT ![t] = "f_load"]
    /\ UNCHANGED <<envVars, arenaVars, poolVars,
                   memory, block_size, num_blocks, free_count, free_list,
                   free_idx, isfree, ptr, old_idx, new_idx, block_idx, ret,
                   histVars>>

\* old_idx = atomic_load(&free_idx); new_idx = old_idx + 1;
\* if (new_idx > num_blocks) return -1
slab_free_load(t) ==
    /\ pc[t] = "f_load"
    /\ IF (free_idx + 1) % SizeMod > num_blocks
       THEN Done(t, "f_done", -1)
       ELSE /\ pc' = [pc EXCEPT ![t] = "f_store"]
            /\ old_idx' = [old_idx EXCEPT ![t] = free_idx]
            /\ new_idx' = [new_idx EXCEPT ![t] = (free_idx + 1) % SizeMod]
            /\ UNCHANGED <<envVars, arenaVars, poolVars, block_idx, ret>>
    /\ UNCHANGED <<envVars, arenaVars, poolVars, slabVars, ptr, histVars>>

\* atomic_store(&free_list[old_idx], block_idx)
slab_free_store(t) ==
    /\ pc[t] = "f_store"
    /\ free_list' = [free_list EXCEPT ![old_idx[t]] = block_idx[t]]
    /\ pc' = [pc EXCEPT ![t] = "f_cas"]
    /\ UNCHANGED <<envVars, arenaVars, poolVars,
                   memory, block_size, num_blocks, free_count, free_idx,
                   magic, isfree, ptr, old_idx, new_idx, block_idx, ret,
                   histVars>>

\* if (!atomic_compare_exchange_strong(&free_idx, &old_idx, new_idx))
\*     return slab_free(alloc, ptr);
slab_free_cas(t) ==
    /\ pc[t] = "f_cas"
    /\ IF free_idx = old_idx[t]
       THEN /\ free_idx' = new_idx[t]
            /\ pc' = [pc EXCEPT ![t] = "f_count"]
       ELSE /\ pc' = [pc EXCEPT ![t] = "f_magic"]
            /\ UNCHANGED free_idx
    /\ UNCHANGED <<envVars, arenaVars, poolVars,
                   memory, block_size, num_blocks, free_count, free_list,
                   magic, isfree, ptr, old_idx, new_idx, block_idx, ret,
                   histVars>>

\* slab_free returning without the increment of free_count.
slab_free_count_skipped(t) ==
    /\ pc[t] = "f_count"
    /\ Done(t, "f_done", 0)
    /\ UNCHANGED <<envVars, arenaVars, poolVars, slabVars, ptr, histVars>>

\* atomic_fetch_add(&free_count, 1); return 0
slab_free_count(t) ==
    /\ pc[t] = "f_count"
    /\ free_count' = (free_count + 1) % SizeMod
    /\ Done(t, "f_done", 0)
    /\ UNCHANGED <<envVars, arenaVars, poolVars,
                   memory, block_size, num_blocks, free_list, free_idx,
                   magic, isfree, ptr, histVars>>

\* One step of a call that thread t is running.
SlabStep(t) ==
    \/ slab_alloc_load(t)
    \/ slab_alloc_cas(t)
    \/ slab_alloc_read(t)
    \/ slab_alloc_magic(t)
    \/ slab_alloc_free(t)
    \/ slab_alloc_count(t)
    \/ ReturnAlloc(t)
    \/ slab_free_magic(t)
    \/ slab_free_free(t)
    \/ slab_free_setfree(t)
    \/ slab_free_setmagic(t)
    \/ slab_free_load(t)
    \/ slab_free_store(t)
    \/ slab_free_cas(t)
    \/ slab_free_count(t)
    \/ ReturnFree(t)

(* ------------------------------------------------------------------ *)
(* Concurrent slab: NThreads callers, each freeing only what it holds  *)
(* ------------------------------------------------------------------ *)

SlabConcInit ==
    /\ SlabInit({CACHE_LINE_SIZE}, {ConcBlocks}, FALSE)
    /\ PoolFields(1, FALSE)
    /\ ArenaInit({CACHE_LINE_SIZE})

SlabConcNext ==
    \E t \in Threads :
        \/ Cardinality(held[t]) < MaxHeld /\ CallAlloc(t)
        \/ \E p \in held[t] : CallFree(t, p)
        \/ SlabStep(t)

SlabConcSpec == SlabConcInit /\ [][SlabConcNext]_vars

\* The blocks that slab_alloc returned to a caller who has not successfully
\* freed them since.
IssuedBlocks == UNION {issued[t] : t \in Threads}

\* No call is in progress.
Quiescent == \A t \in Threads : pc[t] = "idle"

(* ------------------------------------------------------------------ *)
(* Claims on the concurrent slab                                       *)
(* ------------------------------------------------------------------ *)

\* The blocks caller t holds and has not handed to a slab_free call.
Owned(t) ==
    IF pc[t] \in {"idle", "a_load", "a_cas", "a_read", "a_magic", "a_free",
                  "a_count", "a_done"}
    THEN held[t]
    ELSE held[t] \ {ptr[t]}

\* C1: under concurrent slab_alloc and slab_free calls by callers that free
\* only blocks they hold, each once, no block is held by two callers at the
\* same time (a caller holds a block from the return of the slab_alloc that
\* gave it until it calls slab_free on it).
C1_NoDoubleAllocation ==
    \A t, u \in Threads : t # u => Owned(t) \cap Owned(u) = {}

\* C2: slab_free of a block that the caller holds and nobody else holds
\* returns 0, whatever the other threads do meanwhile.
C2_FreeOfHeldBlockSucceeds ==
    \A t \in Threads : (pc[t] = "f_done" /\ excl[t]) => ret[t] = 0

\* C3: once every thread has finished its alloc/free pairs (no call is in
\* progress and no caller holds a block), slab_stats reports used == 0 and
\* free == num_blocks.
C3_AllFreeAfterJoin ==
    (Quiescent /\ \A t \in Threads : held[t] = {})
        => slab_stats_used = 0 /\ slab_stats_free = num_blocks

\* C7: with no call in progress, slab_stats reports used + free ==
\* num_blocks, and used is the number of blocks that slab_alloc returned and
\* that were not successfully freed since.
C7_StatsCountIssuedBlocks ==
    Quiescent =>
        /\ slab_stats_used + slab_stats_free = num_blocks
        /\ slab_stats_used = Cardinality(IssuedBlocks)

(* ------------------------------------------------------------------ *)
(* One thread on a fresh slab, passing any pointer to slab_free        *)
(* ------------------------------------------------------------------ *)

\* The thread of the single-thread runs.
Main == 1

\* The pointers a caller may pass to slab_free: null, an address below the
\* buffer, every block of the grid, an address inside the buffer off the
\* grid, the address one past the last block.
Pointers ==
    {NULL, memory - CACHE_LINE_SIZE, memory + 1, BlockPtr(num_blocks)}
        \cup {BlockPtr(i) : i \in 0 .. num_blocks - 1}

SlabSeqInit ==
    /\ SlabInit({CACHE_LINE_SIZE + 1}, 1 .. MaxBlocks, TRUE)
    /\ PoolFields(1, FALSE)
    /\ ArenaInit({CACHE_LINE_SIZE})

SlabSeqNext ==
    \/ CallAlloc(Main)
    \/ \E p \in Pointers : CallFree(Main, p)
    \/ SlabStep(Main)

SlabSeqSpec == SlabSeqInit /\ [][SlabSeqNext]_vars

\* The positions of the remembered calls.
LogIdx == 1 .. Len(log)

\* free_list[0 .. free_idx) of a remembered slab state.
FreeStack(st) == [i \in 0 .. st.free_idx - 1 |-> st.free_list[i]]

(* ------------------------------------------------------------------ *)
(* Claims on the single-thread slab                                    *)
(* ------------------------------------------------------------------ *)

\* C4: one thread frees the same held pointer twice with no slab_alloc in
\* between: the first slab_free returns 0, the second returns an error and
\* leaves counts, free_idx, free list and block metadata as they were.
C4_DoubleFreeRejected ==
    \A i \in LogIdx :
        log[i].op = "free" =>
            /\ log[i].wasHeld => log[i].ret = 0
            /\ log[i].refree =>
                   log[i].ret = -1 /\ log[i].post = log[i].pre

C4_Witness ==
    /\ Len(log) = 2
    /\ log[1].op = "free" /\ log[1].wasHeld /\ log[1].ret = 0
    /\ log[2].op = "free" /\ log[2].arg = log[1].arg
    /\ log[2].refree /\ log[2].ret = -1
    /\ IssuedBlocks # {}

\* C5: slab_free of a pointer that names no block the caller holds (null,
\* below or beyond the buffer, off the block grid, a block never allocated
\* or already free) returns an error and changes nothing of the slab.
C5_InvalidFreeRejected ==
    \A i \in LogIdx :
        (log[i].op = "free" /\ ~log[i].wasHeld)
            => log[i].ret = -1 /\ log[i].post = log[i].pre

C5_Witness ==
    /\ Len(log) >= 2
    /\ log[Len(log) - 1].op = "free" /\ log[Len(log) - 1].arg = memory + 1
    /\ log[Len(log) - 1].ret = -1
    /\ log[Len(log)].op = "free" /\ log[Len(log)].arg = BlockPtr(num_blocks)
    /\ log[Len(log)].ret = -1
    /\ IssuedBlocks = {BlockPtr(0)}
    /\ num_blocks > 1

\* C6: on a fresh slab the first num_blocks slab_alloc calls return pairwise
\* distinct blocks and the next one returns null; the slab_alloc that follows
\* a successful slab_free returns a block.
C6_ExhaustionAndReuse ==
    /\ \A i \in 1 .. Len(fresh_run) :
         IF i <= num_blocks
         THEN /\ fresh_run[i] # NULL
              /\ \A j \in 1 .. i - 1 : fresh_run[j] # fresh_run[i]
         ELSE fresh_run[i] = NULL
    /\ \A i \in LogIdx :
         (i > 1 /\ log[i].op = "alloc"
            /\ log[i - 1].op = "free" /\ log[i - 1].ret = 0)
         => log[i].ret # NULL

C6_Witness ==
    /\ num_blocks = MaxBlocks
    /\ Len(fresh_run) = num_blocks + 1
    /\ Len(log) >= 2
    /\ log[Len(log) - 1].op = "free" /\ log[Len(log) - 1].ret = 0
    /\ log[Len(log) - 1].pre.free_idx = 0
    /\ log[Len(log) - 1].pre.free_count = 0
    /\ log[Len(log)].op = "alloc" /\ log[Len(log)].ret # NULL

\* C8: a successful slab_alloc immediately followed by slab_free of the
\* block it returned restores slab_stats (free_count), free_idx and
\* free_list[0 .. free_idx).
C8_AllocFreeRoundTrip ==
    \A i \in LogIdx :
        (/\ i > 1
         /\ log[i - 1].op = "alloc" /\ log[i - 1].ret # NULL
         /\ log[i].op = "free" /\ log[i].arg = log[i - 1].ret)
        => /\ log[i].ret = 0
           /\ log[i].post.free_count = log[i - 1].pre.free_count
           /\ log[i].post.free_idx = log[i - 1].pre.free_idx
           /\ FreeStack(log[i].post) = FreeStack(log[i - 1].pre)

C8_Witness ==
    /\ Len(log) >= 2
    /\ log[Len(log) - 1].op = "alloc" /\ log[Len(log) - 1].ret # NULL
    /\ log[Len(log) - 1].pre.free_idx < num_blocks
    /\ log[Len(log) - 1].pre.free_idx >= 1
    /\ log[Len(log)].op = "free"
    /\ log[Len(log)].arg = log[Len(log) - 1].ret
    /\ log[Len(log)].ret = 0

(* ------------------------------------------------------------------ *)
(* Arena                                                               *)
(* ------------------------------------------------------------------ *)

\* The sizes callers request: within a line, a line, more than a line, the
\* largest multiple of the line a size_t holds, the largest size_t.
ArenaSizes ==
    {1, CACHE_LINE_SIZE, CACHE_LINE_SIZE + 1, SizeMod - CACHE_LINE_SIZE,
     SizeMod - 1}

\* arena_stats: used = offset, capacity = capacity.
arena_stats_used == offset
arena_stats_capacity == capacity

\* What arena_stats reports, as one value.
ArenaStats == [used |-> arena_stats_used, capacity |-> arena_stats_capacity]

\* The last two completed arena calls, kept in the single-thread runs: each
\* with the size asked for, the aligned size, the result, and arena_stats
\* before and after the call.
ArenaLogged(op, rq, sz, r, post) ==
    LET e == [op |-> op, asked |-> rq, size |-> sz, ret |-> r,
              pre |-> ArenaStats, post |-> post]
    IN  IF ~logging THEN alog
        ELSE IF alog = <<>> THEN <<e>>
        ELSE <<alog[Len(alog)], e>>

\* arena_alloc(alloc, sz) up to its load of offset: size == 0 returns NULL;
\* size = align_size_to_cache_line(size); old_offset = atomic_load(&offset)
arena_alloc_load(t, sz) ==
    /\ apc[t] = "idle"
    /\ Len(allocs) < MaxArenaAllocs
    /\ IF sz = 0
       THEN /\ alog' = ArenaLogged("alloc", 0, 0, NULL, ArenaStats)
            /\ UNCHANGED <<apc, size, old_offset, asked>>
       ELSE /\ apc' = [apc EXCEPT ![t] = "cas"]
            /\ size' = [size EXCEPT ![t] = align_size_to_cache_line(sz)]
            /\ old_offset' = [old_offset EXCEPT ![t] = offset]
            /\ asked' = [asked EXCEPT ![t] = IF logging THEN sz ELSE 0]
            /\ UNCHANGED alog
    /\ UNCHANGED <<envVars,
                   capacity, offset, allocs, slabVars, threadVars, histVars,
                   poolVars>>

\* arena_alloc whose failed compare-and-swap leaves old_offset as it was.
arena_alloc_cas_noreload(t) ==
    /\ apc[t] = "cas"
    /\ LET new_offset == (old_offset[t] + size[t]) % SizeMod
       IN  IF new_offset > capacity
           THEN /\ apc' = [apc EXCEPT ![t] = "idle"]
                /\ size' = [size EXCEPT ![t] = 0]
                /\ old_offset' = [old_offset EXCEPT ![t] = 0]
                /\ asked' = [asked EXCEPT ![t] = 0]
                /\ alog' = ArenaLogged("alloc", asked[t], size[t], NULL,
                                       ArenaStats)
                /\ UNCHANGED <<offset, allocs>>
           ELSE IF offset = old_offset[t]
           THEN /\ offset' = new_offset
                /\ allocs' = Append(allocs,
                                [p |-> ArenaMemory + old_offset[t],
                                 size |-> size[t]])
                /\ apc' = [apc EXCEPT ![t] = "idle"]
                /\ size' = [size EXCEPT ![t] = 0]
                /\ old_offset' = [old_offset EXCEPT ![t] = 0]
                /\ asked' = [asked EXCEPT ![t] = 0]
                /\ alog' = ArenaLogged("alloc", asked[t], size[t],
                                       ArenaMemory + old_offset[t],
                                       [ArenaStats EXCEPT !.used = new_offset])
           ELSE UNCHANGED <<offset, allocs, apc, size, old_offset, asked,
                            alog>>
    /\ UNCHANGED <<envVars, capacity, slabVars, threadVars, histVars,
                   poolVars>>

\* One turn of the loop: new_offset = old_offset + size; if it exceeds
\* capacity return NULL; compare-and-swap offset, which on success returns
\* memory + old_offset and on failure reloads old_offset.
arena_alloc_cas(t) ==
    /\ apc[t] = "cas"
    /\ LET new_offset == (old_offset[t] + size[t]) % SizeMod
       IN  IF new_offset > capacity
           THEN /\ apc' = [apc EXCEPT ![t] = "idle"]
                /\ size' = [size EXCEPT ![t] = 0]
                /\ old_offset' = [old_offset EXCEPT ![t] = 0]
                /\ asked' = [asked EXCEPT ![t] = 0]
                /\ alog' = ArenaLogged("alloc", asked[t], size[t], NULL,
                                       ArenaStats)
                /\ UNCHANGED <<offset, allocs>>
           ELSE IF offset = old_offset[t]
           THEN /\ offset' = new_offset
                /\ allocs' = Append(allocs,
                                [p |-> ArenaMemory + old_offset[t],
                                 size |-> size[t]])
                /\ apc' = [apc EXCEPT ![t] = "idle"]
                /\ size' = [size EXCEPT ![t] = 0]
                /\ old_offset' = [old_offset EXCEPT ![t] = 0]
                /\ asked' = [asked EXCEPT ![t] = 0]
                /\ alog' = ArenaLogged("alloc", asked[t], size[t],
                                       ArenaMemory + old_offset[t],
                                       [ArenaStats EXCEPT !.used = new_offset])
           ELSE /\ old_offset' = [old_offset EXCEPT ![t] = offset]
                /\ UNCHANGED <<offset, allocs, apc, size, asked, alog>>
    /\ UNCHANGED <<envVars, capacity, slabVars, threadVars, histVars, poolVars>>

\* arena_reset without its store to offset.
arena_reset_nostore(t) ==
    /\ apc[t] = "idle"
    /\ allocs' = <<>>
    /\ alog' = ArenaLogged("reset", 0, 0, NULL, ArenaStats)
    /\ UNCHANGED <<envVars,
                   capacity, offset, apc, size, old_offset, asked, slabVars,
                   threadVars, histVars, poolVars>>

\* arena_reset: atomic_store(&offset, 0); the pointers returned so far are
\* no longer live.
arena_reset(t) ==
    /\ apc[t] = "idle"
    /\ offset' = 0
    /\ allocs' = <<>>
    /\ alog' = ArenaLogged("reset", 0, 0, NULL, [ArenaStats EXCEPT !.used = 0])
    /\ UNCHANGED <<envVars, capacity, apc, size, old_offset, asked, slabVars,
                   threadVars, histVars, poolVars>>

\* arena_create of a capacity that rounds up to ArenaLines cache lines.
ArenaSpecInit ==
    /\ SlabInit({CACHE_LINE_SIZE}, {1}, FALSE)
    /\ PoolFields(1, FALSE)
    /\ ArenaInit({CACHE_LINE_SIZE * ArenaLines - 1})

\* Concurrent arena_alloc calls, no arena_reset.
ArenaAllocNext ==
    \E t \in Threads :
        \/ \E sz \in ArenaSizes : arena_alloc_load(t, sz)
        \/ arena_alloc_cas(t)

ArenaAllocSpec == ArenaSpecInit /\ [][ArenaAllocNext]_vars

\* Concurrent arena_alloc and arena_reset calls.
ArenaNext ==
    \E t \in Threads :
        \/ \E sz \in ArenaSizes : arena_alloc_load(t, sz)
        \/ arena_alloc_cas(t)
        \/ arena_reset(t)

ArenaSpec == ArenaSpecInit /\ [][ArenaNext]_vars

\* No arena_alloc is in progress.
ArenaQuiescent == \A t \in Threads : apc[t] = "idle"

RECURSIVE SumSizes(_)
SumSizes(sq) == IF sq = <<>> THEN 0 ELSE Head(sq).size + SumSizes(Tail(sq))

\* The byte ranges [a.p, a.p + a.size) and [b.p, b.p + b.size) share no byte.
Disjoint(a, b) == a.p + a.size <= b.p \/ b.p + b.size <= a.p

(* ------------------------------------------------------------------ *)
(* Claims on the arena                                                 *)
(* ------------------------------------------------------------------ *)

\* C9: under concurrent arena_alloc calls with no arena_reset, the ranges
\* [p, p + aligned_size) of the successful allocations are pairwise
\* disjoint, and once the calls have finished offset is the sum of their
\* aligned sizes.
C9_ArenaRangesDisjoint ==
    /\ \A i, j \in 1 .. Len(allocs) :
         i # j => Disjoint(allocs[i], allocs[j])
    /\ ArenaQuiescent => offset = SumSizes(allocs)

\* C10: under concurrent arena_alloc and arena_reset calls, offset <=
\* capacity, and the aligned range of every pointer arena_alloc returned
\* since the last arena_reset lies inside [data, data + offset).
C10_ArenaRangesInsideUsed ==
    /\ offset <= capacity
    /\ \A i \in 1 .. Len(allocs) :
         /\ ArenaMemory <= allocs[i].p
         /\ allocs[i].p + allocs[i].size <= ArenaMemory + offset

(* ------------------------------------------------------------------ *)
(* One thread on a fresh arena                                         *)
(* ------------------------------------------------------------------ *)

ArenaSeqInit ==
    /\ SlabInit({CACHE_LINE_SIZE}, {1}, TRUE)
    /\ PoolFields(1, FALSE)
    /\ ArenaInit({CACHE_LINE_SIZE * ArenaLines - 1})

ArenaSeqNext ==
    \/ \E sz \in ArenaSizes : arena_alloc_load(Main, sz)
    \/ arena_alloc_cas(Main)
    \/ arena_reset(Main)

ArenaSeqSpec == ArenaSeqInit /\ [][ArenaSeqNext]_vars

\* The positions of the remembered arena calls.
ArenaLogIdx == 1 .. Len(alog)

\* The bytes left in the arena before a remembered call.
Remaining(e) == e.pre.capacity - e.pre.used

(* ------------------------------------------------------------------ *)
(* Claims on the single-thread arena                                   *)
(* ------------------------------------------------------------------ *)

\* C11: an arena_alloc whose aligned size exceeds capacity - offset returns
\* NULL and leaves offset as it was; an arena_alloc that follows a failed
\* one and whose aligned size fits in capacity - offset succeeds; after
\* arena_reset an arena_alloc whose aligned size is at most capacity
\* succeeds.
C11_ExhaustionNotSticky ==
    \A i \in ArenaLogIdx :
        (alog[i].op = "alloc" /\ alog[i].asked >= 1) =>
            /\ alog[i].size > Remaining(alog[i])
                 => alog[i].ret = NULL /\ alog[i].post = alog[i].pre
            /\ (/\ i > 1
                /\ alog[i - 1].op = "alloc" /\ alog[i - 1].ret = NULL
                /\ alog[i].size <= Remaining(alog[i]))
                 => alog[i].ret # NULL
            /\ (/\ i > 1
                /\ alog[i - 1].op = "reset"
                /\ alog[i].size <= alog[i].pre.capacity)
                 => alog[i].ret # NULL

\* C12: for every size asked from 1 to the largest size_t, a non-null
\* result of arena_alloc names at least that many bytes inside the arena's
\* buffer and offset has advanced by at least that many; a size whose
\* rounding wraps gets NULL.
C12_GrantedRegionInsideBuffer ==
    \A i \in ArenaLogIdx :
        (alog[i].op = "alloc" /\ alog[i].asked >= 1 /\ alog[i].ret # NULL)
            => /\ alog[i].size >= alog[i].asked
               /\ ArenaMemory <= alog[i].ret
               /\ alog[i].ret + alog[i].asked
                    <= ArenaMemory + alog[i].pre.capacity
               /\ alog[i].post.used - alog[i].pre.used >= alog[i].asked

\* C13: after arena_reset, arena_stats reports used == 0 and the capacity
\* it reported before, whatever was allocated; a second arena_reset in a
\* row leaves what the first one left.
C13_ResetClearsUsed ==
    \A i \in ArenaLogIdx :
        alog[i].op = "reset" =>
            /\ alog[i].post.used = 0
            /\ alog[i].post.capacity = alog[i].pre.capacity
            /\ (i > 1 /\ alog[i - 1].op = "reset")
                 => alog[i].post = alog[i - 1].post

C13_Witness ==
    /\ Len(alog) = 2
    /\ alog[1].op = "reset" /\ alog[1].pre.used = capacity
    /\ alog[2].op = "reset" /\ alog[2].post = alog[1].post
    /\ arena_stats_used = 0

\* C14: on an arena used by one thread, the k-th successful arena_alloc
\* since creation or the last arena_reset returns data plus the sum of the
\* aligned sizes of the k - 1 successful allocations before it.
C14_SequentialLayout ==
    \A k \in 1 .. Len(allocs) :
        allocs[k].p = ArenaMemory + SumSizes(SubSeq(allocs, 1, k - 1))

(* ------------------------------------------------------------------ *)
(* Pool                                                                *)
(* ------------------------------------------------------------------ *)

\* get_thread_local_cache: the thread's cache, a new empty one of
\* blocks_per_thread slots when it has none, or NoCache when one of the two
\* malloc calls fails.  The slots of a new array are never read before
\* they are written: a slot is read only below cache_count.
get_thread_local_cache(t, fail) ==
    IF tls[t].present THEN tls[t]
    ELSE IF fail THEN NoCache
    ELSE [present |-> TRUE, cache_size |-> blocks_per_thread,
          cache_count |-> 0,
          local_cache |-> [i \in 0 .. blocks_per_thread - 1 |-> NULL]]

\* The pool as the calling thread sees it: the shared slab and its own
\* cache.
PoolState(t) == [slab |-> SlabState, cache |-> tls[t]]

\* pool_stats forwards to slab_stats.
pool_stats_allocated == slab_stats_used
pool_stats_free == slab_stats_free

\* The run of alternating calls when a pool_alloc is called.
AltCallAlloc == IF alt.ok /\ alt.expect = "alloc" THEN alt ELSE NoRun

\* The run of alternating calls when pool_free(p) is called.
AltCallFree(p) ==
    IF alt.ok /\ alt.expect = "free" /\ p = alt.last THEN alt ELSE NoRun

\* pool_alloc that leaves cache_count as it is on a cache hit.
pool_alloc_cache_nodec(t, fail) ==
    /\ pc[t] = "idle"
    /\ psnap' = IF logging THEN PoolState(t) ELSE psnap
    /\ alt' = AltCallAlloc
    /\ freed' = {}
    /\ LET cache == get_thread_local_cache(t, fail)
       IN  IF ~cache.present
           THEN /\ Done(t, "a_done", NULL)
                /\ path' = [path EXCEPT ![t] = "nocache"]
                /\ UNCHANGED tls
           ELSE IF cache.cache_count > 0
           THEN /\ Done(t, "a_done",
                        cache.local_cache[cache.cache_count - 1])
                /\ path' = [path EXCEPT ![t] = "cache"]
                /\ tls' = [tls EXCEPT ![t] = cache]
           ELSE /\ pc' = [pc EXCEPT ![t] = "a_load"]
                /\ path' = [path EXCEPT ![t] = "slab"]
                /\ tls' = [tls EXCEPT ![t] = cache]
                /\ UNCHANGED <<old_idx, new_idx, block_idx, ret>>
    /\ UNCHANGED <<envVars,
                   arenaVars, slabVars, ptr, held, issued, excl, logging,
                   snap, log, fresh, fresh_run, blocks_per_thread, plog>>

\* pool_alloc that goes to slab_alloc whatever the cache holds.
pool_alloc_cache_skipped(t, fail) ==
    /\ pc[t] = "idle"
    /\ psnap' = IF logging THEN PoolState(t) ELSE psnap
    /\ alt' = AltCallAlloc
    /\ freed' = {}
    /\ LET cache == get_thread_local_cache(t, fail)
       IN  IF ~cache.present
           THEN /\ Done(t, "a_done", NULL)
                /\ path' = [path EXCEPT ![t] = "nocache"]
                /\ UNCHANGED tls
           ELSE /\ pc' = [pc EXCEPT ![t] = "a_load"]
                /\ path' = [path EXCEPT ![t] = "slab"]
                /\ tls' = [tls EXCEPT ![t] = cache]
                /\ UNCHANGED <<old_idx, new_idx, block_idx, ret>>
    /\ UNCHANGED <<envVars,
                   arenaVars, slabVars, ptr, held, issued, excl, logging,
                   snap, log, fresh, fresh_run, blocks_per_thread, plog>>

\* pool_alloc up to its call of slab_alloc (pool is live): the thread's
\* cache is found or created; a thread without a cache gets NULL; a cache
\* with cache_count > 0 gives local_cache[cache_count - 1] and loses one;
\* otherwise the thread enters slab_alloc.  Only the thread itself reaches
\* its cache, so the load and the compare-and-swap of cache_count are one
\* step.
pool_alloc_cache(t, fail) ==
    /\ pc[t] = "idle"
    /\ psnap' = IF logging THEN PoolState(t) ELSE psnap
    /\ alt' = AltCallAlloc
    /\ freed' = {}
    /\ LET cache == get_thread_local_cache(t, fail)
       IN  IF ~cache.present
           THEN /\ Done(t, "a_done", NULL)
                /\ path' = [path EXCEPT ![t] = "nocache"]
                /\ UNCHANGED tls
           ELSE IF cache.cache_count > 0
           THEN /\ Done(t, "a_done",
                        cache.local_cache[cache.cache_count - 1])
                /\ path' = [path EXCEPT ![t] = "cache"]
                /\ tls' = [tls EXCEPT ![t] =
                             [cache EXCEPT !.cache_count = @ - 1]]
           ELSE /\ pc' = [pc EXCEPT ![t] = "a_load"]
                /\ path' = [path EXCEPT ![t] = "slab"]
                /\ tls' = [tls EXCEPT ![t] = cache]
                /\ UNCHANGED <<old_idx, new_idx, block_idx, ret>>
    /\ UNCHANGED <<envVars,
                   arenaVars, slabVars, ptr, held, issued, excl, logging,
                   snap, log, fresh, fresh_run, blocks_per_thread, plog>>

\* The last completed pool call, kept in the single-thread runs: its
\* argument, its result, the pool before and after it, the way it took,
\* whether the caller held the argument and whether a pool_free of the
\* argument has returned 0 since the last pool_alloc call.
PoolLogged(op, t, p, r) ==
    IF ~logging THEN plog
    ELSE <<[op |-> op, arg |-> p, ret |-> r, pre |-> psnap,
            post |-> PoolState(t), path |-> path[t],
            wasHeld |-> p \in held[t], refree |-> p \in freed]>>

\* pool_alloc returns what the cache or slab_alloc gave: return ptr.
pool_alloc_return(t) ==
    /\ pc[t] = "a_done"
    /\ path[t] # "none"
    /\ pc' = [pc EXCEPT ![t] = "idle"]
    /\ ret' = [ret EXCEPT ![t] = NULL]
    /\ path' = [path EXCEPT ![t] = "none"]
    /\ held' = [held EXCEPT ![t] =
                  IF ret[t] = NULL THEN @ ELSE @ \cup {ret[t]}]
    /\ issued' = [issued EXCEPT ![t] =
                    IF ret[t] = NULL THEN @ ELSE @ \cup {ret[t]}]
    /\ plog' = PoolLogged("alloc", t, NULL, ret[t])
    /\ alt' = IF alt.ok /\ ret[t] # NULL
              THEN [ok |-> TRUE, expect |-> "free",
                    first |-> IF alt.n = 0 THEN ret[t] ELSE alt.first,
                    last |-> ret[t],
                    n |-> IF alt.n < MaxRun THEN alt.n + 1 ELSE alt.n]
              ELSE NoRun
    /\ UNCHANGED <<envVars,
                   arenaVars, slabVars, ptr, old_idx, new_idx, block_idx,
                   excl, logging, snap, log, freed, fresh, fresh_run,
                   blocks_per_thread, tls, psnap>>

\* pool_free that goes to slab_free whatever room the cache has.
pool_free_cache_skipped(t, p, fail) ==
    /\ pc[t] = "idle"
    /\ ptr' = [ptr EXCEPT ![t] = p]
    /\ psnap' = IF logging THEN PoolState(t) ELSE psnap
    /\ alt' = AltCallFree(p)
    /\ LET cache == get_thread_local_cache(t, fail)
       IN  IF p = NULL
           THEN /\ Done(t, "f_done", -1)
                /\ path' = [path EXCEPT ![t] = "reject"]
                /\ UNCHANGED tls
           ELSE IF ~cache.present
           THEN /\ pc' = [pc EXCEPT ![t] = "f_magic"]
                /\ path' = [path EXCEPT ![t] = "nocache"]
                /\ UNCHANGED <<tls, old_idx, new_idx, block_idx, ret>>
           ELSE /\ pc' = [pc EXCEPT ![t] = "f_magic"]
                /\ path' = [path EXCEPT ![t] = "slab"]
                /\ tls' = [tls EXCEPT ![t] = cache]
                /\ UNCHANGED <<old_idx, new_idx, block_idx, ret>>
    /\ UNCHANGED <<envVars,
                   arenaVars, slabVars, histVars, blocks_per_thread, plog>>

\* pool_free(pool, p) up to its call of slab_free (pool is live): a NULL
\* ptr gets -1; the thread's cache is found or created; a thread without
\* a cache enters slab_free; a cache with cache_count < blocks_per_thread
\* takes p in slot cache_count and the call returns 0; otherwise the thread
\* enters slab_free.
pool_free_cache(t, p, fail) ==
    /\ pc[t] = "idle"
    /\ ptr' = [ptr EXCEPT ![t] = p]
    /\ psnap' = IF logging THEN PoolState(t) ELSE psnap
    /\ alt' = AltCallFree(p)
    /\ LET cache == get_thread_local_cache(t, fail)
       IN  IF p = NULL
           THEN /\ Done(t, "f_done", -1)
                /\ path' = [path EXCEPT ![t] = "reject"]
                /\ UNCHANGED tls
           ELSE IF ~cache.present
           THEN /\ pc' = [pc EXCEPT ![t] = "f_magic"]
                /\ path' = [path EXCEPT ![t] = "nocache"]
                /\ UNCHANGED <<tls, old_idx, new_idx, block_idx, ret>>
           ELSE IF cache.cache_count < blocks_per_thread
           THEN /\ Done(t, "f_done", 0)
                /\ path' = [path EXCEPT ![t] = "cache"]
                /\ tls' = [tls EXCEPT ![t] =
                             [cache EXCEPT
                                !.cache_count = @ + 1,
                                !.local_cache[cache.cache_count] = p]]
           ELSE /\ pc' = [pc EXCEPT ![t] = "f_magic"]
                /\ path' = [path EXCEPT ![t] = "slab"]
                /\ tls' = [tls EXCEPT ![t] = cache]
                /\ UNCHANGED <<old_idx, new_idx, block_idx, ret>>
    /\ UNCHANGED <<envVars,
                   arenaVars, slabVars, histVars, blocks_per_thread, plog>>

\* pool_free returns 0 from the cache or what slab_free returned; the
\* caller gives the pointer up.
pool_free_return(t) ==
    /\ pc[t] = "f_done"
    /\ path[t] # "none"
    /\ pc' = [pc EXCEPT ![t] = "idle"]
    /\ ret' = [ret EXCEPT ![t] = NULL]
    /\ ptr' = [ptr EXCEPT ![t] = NULL]
    /\ path' = [path EXCEPT ![t] = "none"]
    /\ held' = [held EXCEPT ![t] = @ \ {ptr[t]}]
    /\ issued' = [issued EXCEPT ![t] =
                    IF ret[t] = 0 THEN @ \ {ptr[t]} ELSE @]
    /\ plog' = PoolLogged("free", t, ptr[t], ret[t])
    /\ freed' = IF logging /\ ret[t] = 0 /\ ptr[t] \in held[t]
                THEN freed \cup {ptr[t]} ELSE freed
    /\ alt' = IF alt.ok THEN [alt EXCEPT !.expect = "alloc"] ELSE NoRun
    /\ UNCHANGED <<envVars, arenaVars, slabVars, old_idx, new_idx, block_idx,
                   excl, logging, snap, log, fresh, fresh_run,
                   blocks_per_thread, tls, psnap>>

\* One step of a pool call that thread t is running: a step of the
\* slab_alloc or slab_free it is in, or its return.
PoolStep(t) ==
    \/ slab_alloc_load(t)
    \/ slab_alloc_cas(t)
    \/ slab_alloc_read(t)
    \/ slab_alloc_magic(t)
    \/ slab_alloc_free(t)
    \/ slab_alloc_count(t)
    \/ pool_alloc_return(t)
    \/ slab_free_magic(t)
    \/ slab_free_free(t)
    \/ slab_free_setfree(t)
    \/ slab_free_setmagic(t)
    \/ slab_free_load(t)
    \/ slab_free_store(t)
    \/ slab_free_cas(t)
    \/ slab_free_count(t)
    \/ pool_free_return(t)

(* ------------------------------------------------------------------ *)
(* One thread on a fresh pool, passing any pointer to pool_free        *)
(* ------------------------------------------------------------------ *)

\* The pointers the caller passes to pool_free: null, the blocks it holds,
\* and the blocks it has freed since its last pool_alloc call (a double
\* free).
PoolPointers == {NULL} \cup held[Main] \cup freed

PoolSeqInit ==
    /\ PoolInit({CACHE_LINE_SIZE}, 1 .. MaxPerThread, 1 .. PoolBlocks, TRUE)
    /\ ArenaInit({CACHE_LINE_SIZE})

PoolSeqNext ==
    \/ pool_alloc_cache(Main, FALSE)
    \/ \E p \in PoolPointers : pool_free_cache(Main, p, FALSE)
    \/ PoolStep(Main)

PoolSeqSpec == PoolSeqInit /\ [][PoolSeqNext]_vars

\* The positions of the remembered pool calls.
PoolLogIdx == 1 .. Len(plog)

\* What slab_free(alloc, p) returns when it runs alone on the slab st: -1
\* from the pointer checks, from magic != ALLOCATED_MARKER, from free != 0
\* and from free_idx + 1 > num_blocks, else 0.
slab_free_returns(st, p) ==
    LET b == slab_free_index(p)
    IN  IF b = -1 THEN -1
        ELSE IF st.magic[b] # ALLOCATED_MARKER THEN -1
        ELSE IF st.isfree[b] # 0 THEN -1
        ELSE IF (st.free_idx + 1) % SizeMod > num_blocks THEN -1
        ELSE 0

(* ------------------------------------------------------------------ *)
(* Claims on the single-thread pool                                    *)
(* ------------------------------------------------------------------ *)

\* C15: a pool_alloc that finds cache_count > 0 returns the pointer in
\* slot cache_count - 1, leaves cache_count one lower and leaves the
\* shared slab (free_idx, free_list, free_count, block metadata) as it
\* was; a pool_alloc that calls slab_alloc found cache_count == 0.
C15_CacheHitLeavesSlab ==
    \A i \in PoolLogIdx :
        plog[i].op = "alloc" =>
            /\ plog[i].pre.cache.cache_count > 0 =>
                 /\ plog[i].ret = plog[i].pre.cache.local_cache[
                                      plog[i].pre.cache.cache_count - 1]
                 /\ plog[i].post.cache.cache_count
                      = plog[i].pre.cache.cache_count - 1
                 /\ plog[i].post.slab = plog[i].pre.slab
            /\ plog[i].path = "slab" => plog[i].pre.cache.cache_count = 0

C15_Witness ==
    /\ Len(plog) = 1
    /\ plog[1].op = "alloc" /\ plog[1].path = "cache"
    /\ plog[1].pre.cache.cache_count = MaxPerThread
    /\ plog[1].pre.cache.local_cache[0] # plog[1].ret
    /\ plog[1].ret = BlockPtr(0)
    /\ held[Main] = {BlockPtr(0)}

C17_OnlyFirstAllocMisses ==
    (alt.ok /\ alt.n >= 1) =>
        /\ free_count = num_blocks - 1
        /\ alt.last = alt.first
        /\ (alt.n >= 2 /\ alt.expect = "free")
             => /\ plog[Len(plog)].op = "alloc"
                /\ plog[Len(plog)].path = "cache"

C17_Witness ==
    /\ alt.ok /\ alt.n = MaxRun /\ alt.expect = "alloc"
    /\ pc[Main] = "idle"
    /\ num_blocks = PoolBlocks
    /\ plog[Len(plog)].op = "free" /\ plog[Len(plog)].path = "cache"

\* C19: once a pool_free of a pointer the caller held has returned 0, a
\* second pool_free of that pointer with no pool_alloc in between does not
\* return 0.
C19_PoolDoubleFreeRejected ==
    \A i \in PoolLogIdx :
        (plog[i].op = "free" /\ plog[i].refree) => plog[i].ret # 0

(* ------------------------------------------------------------------ *)
(* Concurrent pool: NThreads callers, each freeing only what it holds  *)
(* ------------------------------------------------------------------ *)

PoolConcInit ==
    /\ PoolInit({CACHE_LINE_SIZE}, {1}, {PoolConcBlocks}, FALSE)
    /\ ArenaInit({CACHE_LINE_SIZE})

PoolConcNext ==
    \E t \in Threads :
        \/ Cardinality(held[t]) < PoolMaxHeld /\ pool_alloc_cache(t, FALSE)
        \/ \E p \in held[t] : pool_free_cache(t, p, FALSE)
        \/ PoolStep(t)

PoolConcSpec == PoolConcInit /\ [][PoolConcNext]_vars

\* The number of pointers parked in the caches of the threads in S.
RECURSIVE Parked(_)
Parked(S) ==
    IF S = {} THEN 0
    ELSE LET t == CHOOSE u \in S : TRUE
         IN  tls[t].cache_count + Parked(S \ {t})

(* ------------------------------------------------------------------ *)
(* Claims on the concurrent pool                                       *)
(* ------------------------------------------------------------------ *)

\* C18: with no call in progress, after pool_alloc and pool_free calls by
\* threads that free only blocks they hold, each once, the allocated value
\* of pool_stats is the number of blocks callers hold (the blocks that
\* pool_alloc returned and that no pool_free has accepted since) plus the
\* number of pointers parked in the threads' caches, and allocated + free
\* == total_blocks.
C18_StatsCountHeldAndParked ==
    Quiescent =>
        /\ pool_stats_allocated = Cardinality(IssuedBlocks) + Parked(Threads)
        /\ pool_stats_allocated + pool_stats_free = num_blocks

(* ------------------------------------------------------------------ *)
(* One thread on a fresh pool, where the malloc of its cache may fail   *)
(* ------------------------------------------------------------------ *)

PoolOomInit ==
    /\ PoolInit({CACHE_LINE_SIZE}, {1}, {PoolBlocks}, TRUE)
    /\ ArenaInit({CACHE_LINE_SIZE})

\* The pointers the caller passes to pool_free: null and every block of
\* the pool's slab, held or not.
PoolOomPointers == {NULL} \cup {BlockPtr(i) : i \in 0 .. num_blocks - 1}

PoolOomNext ==
    \/ \E fail \in BOOLEAN : pool_alloc_cache(Main, fail)
    \/ \E p \in PoolOomPointers, fail \in BOOLEAN :
          pool_free_cache(Main, p, fail)
    \/ PoolStep(Main)

PoolOomSpec == PoolOomInit /\ [][PoolOomNext]_vars

\* What slab_alloc(alloc) returns when it runs alone on the slab st: NULL
\* from free_idx == 0 and from a block index out of range, else the block
\* named by free_list[free_idx - 1].
slab_alloc_returns(st) ==
    IF st.free_idx = 0 THEN NULL
    ELSE LET b == st.free_list[st.free_idx - 1]
         IN  IF b < 0 \/ b >= num_blocks THEN NULL ELSE BlockPtr(b)

(* ------------------------------------------------------------------ *)
(* Claims on the pool without a thread cache                           *)
(* ------------------------------------------------------------------ *)

\* C20: a pool call of a thread whose cache cannot be created (malloc
\* fails) does what the slab call does on the shared slab: pool_alloc
\* returns what slab_alloc returns, a block whenever the slab has a free
\* one, and pool_free returns what slab_free returns for the pointer.
C20_NoCacheFallsBackToSlab ==
    \A i \in PoolLogIdx :
        plog[i].path = "nocache" =>
            /\ plog[i].op = "alloc"
                 => plog[i].ret = slab_alloc_returns(plog[i].pre.slab)
            /\ plog[i].op = "free"
                 => plog[i].ret
                      = slab_free_returns(plog[i].pre.slab, plog[i].arg)

(* ------------------------------------------------------------------ *)
(* Claims on the quiescent states of the concurrent slab               *)
(* ------------------------------------------------------------------ *)

\* The indices of the blocks.
Blocks == 0 .. num_blocks - 1

\* The positions of free_list[0 .. free_idx).
StackIdx == 0 .. free_idx - 1

\* The positions of free_list[0 .. free_idx) that name block b.
StackPos(b) == {i \in StackIdx : free_list[i] = b}

\* C24: with no slab call in progress, after any interleaving of slab_alloc
\* and slab_free calls, free_idx <= num_blocks, every entry of
\* free_list[0 .. free_idx) is a block index, the entries are pairwise
\* distinct, and each names a block with free == 1 and magic == FREE_MARKER.
C24_FreeStackWellFormed ==
    Quiescent =>
        /\ free_idx <= num_blocks
        /\ \A i \in StackIdx :
             /\ free_list[i] \in Blocks
             /\ \A j \in StackIdx : free_list[j] = free_list[i] => j = i
             /\ isfree[free_list[i]] = 1
             /\ magic[free_list[i]] = FREE_MARKER

\* C25: with no slab call in progress, after any interleaving of slab_alloc
\* and slab_free calls, every block with free == 0 has magic ==
\* ALLOCATED_MARKER and its index is not in free_list[0 .. free_idx).
C25_AllocatedBlocksOffStack ==
    Quiescent =>
        \A b \in Blocks :
            isfree[b] = 0 =>
                magic[b] = ALLOCATED_MARKER /\ StackPos(b) = {}

\* C26: with no slab call in progress, free_count equals free_idx, after any
\* interleaving of completed slab_alloc and slab_free calls, those that
\* returned NULL or -1 included.
C26_CountIsStackDepth ==
    Quiescent => free_count = free_idx

\* Quiescent after a slab_free that returned -1 on a block it had already
\* marked free: the stack is empty, a block is marked free and a caller
\* holds a block.
C26_Witness ==
    /\ Quiescent
    /\ free_idx = 0
    /\ free_count = 0
    /\ \E b \in Blocks : isfree[b] = 1
    /\ \E t \in Threads : held[t] # {}

\* The callers that hold block b.
Holders(b) == {t \in Threads : BlockPtr(b) \in held[t]}

\* C27: with no slab call in progress, after any interleaving of slab_alloc
\* and slab_free calls by callers that free only blocks they hold, every
\* block is either named once in free_list[0 .. free_idx) or held by exactly
\* one caller, never both and never neither.
C27_NoBlockLost ==
    Quiescent =>
        \A b \in Blocks :
            Cardinality(StackPos(b)) + Cardinality(Holders(b)) = 1

(* ------------------------------------------------------------------ *)
(* Claims on slab_create and on the order of the single-thread slab    *)
(* ------------------------------------------------------------------ *)

\* The block sizes and block counts slab_create is called with.
CreateSizes == {0, 1, CACHE_LINE_SIZE, CACHE_LINE_SIZE + 1}
CreateCounts == 0 .. MaxBlocks

\* No slab call has been made on the slab since slab_create returned it.
Pristine ==
    /\ pc[Main] = "idle"
    /\ log = <<>>
    /\ fresh /\ fresh_run = <<>>

\* C28: slab_create returns NULL when block_size or num_blocks is zero;
\* otherwise the slab it returns has every block marked free with
\* FREE_MARKER, free_list[i] == i for every i < num_blocks, free_idx ==
\* num_blocks, and slab_stats reports used == 0 and free == num_blocks.
C28_SlabCreate ==
    /\ \A bs \in CreateSizes, nb \in CreateCounts :
         LET s == slab_create(bs, nb)
         IN  IF bs = 0 \/ nb = 0
             THEN ~s.ok
             ELSE /\ s.ok
                  /\ s.num_blocks = nb
                  /\ s.free_idx = nb
                  /\ s.free_count = nb
                  /\ \A i \in 0 .. nb - 1 :
                       /\ s.free_list[i] = i
                       /\ s.isfree[i] = 1
                       /\ s.magic[i] = FREE_MARKER
    /\ Pristine =>
         /\ \A i \in Blocks :
              /\ free_list[i] = i
              /\ isfree[i] = 1
              /\ magic[i] = FREE_MARKER
         /\ free_idx = num_blocks
         /\ slab_stats_used = 0
         /\ slab_stats_free = num_blocks

C28_Witness ==
    /\ Pristine
    /\ num_blocks = MaxBlocks
    /\ block_size = 2 * CACHE_LINE_SIZE
    /\ ~slab_create(0, MaxBlocks).ok
    /\ ~slab_create(CACHE_LINE_SIZE, 0).ok

\* C29: on a slab used by one thread, slab_alloc returns the block whose
\* index is free_list[free_idx - 1] (NULL when free_idx is 0), so the
\* slab_alloc that follows a successful slab_free returns the block that
\* slab_free was given.
C29_LastFreedFirstOut ==
    \A i \in LogIdx :
        log[i].op = "alloc" =>
            /\ IF log[i].pre.free_idx = 0
               THEN log[i].ret = NULL
               ELSE log[i].ret =
                        BlockPtr(log[i].pre.free_list[log[i].pre.free_idx - 1])
            /\ (i > 1 /\ log[i - 1].op = "free" /\ log[i - 1].ret = 0)
                   => log[i].ret = log[i - 1].arg

\* A block is freed while another block is on the stack below it, and the
\* next slab_alloc returns it.
C29_Witness ==
    /\ Len(log) = 2
    /\ log[1].op = "free" /\ log[1].ret = 0
    /\ log[1].pre.free_idx >= 1
    /\ log[1].arg # BlockPtr(log[1].pre.free_list[0])
    /\ log[2].op = "alloc" /\ log[2].ret = log[1].arg

(* ------------------------------------------------------------------ *)
(* Claims on the contents of the threads' caches                       *)
(* ------------------------------------------------------------------ *)

\* The occupied slots of thread t's cache.
CacheIdx(t) == 0 .. tls[t].cache_count - 1

\* The pointers in the occupied slots of thread t's cache.
Cached(t) == {tls[t].local_cache[i] : i \in CacheIdx(t)}

\* The slab considers the block at p allocated: p is the address of a block
\* with free == 0 and magic == ALLOCATED_MARKER whose index is not in
\* free_list[0 .. free_idx).
SlabAllocated(p) ==
    \E b \in Blocks :
        /\ p = BlockPtr(b)
        /\ isfree[b] = 0
        /\ magic[b] = ALLOCATED_MARKER
        /\ StackPos(b) = {}

\* C30: when callers pass to pool_free only blocks they got from pool_alloc
\* of this pool and hold, in every reachable state every pointer in an
\* occupied slot of a thread's cache is a block of the pool's slab that the
\* slab considers allocated.
C30_CachedBlocksAllocated ==
    \A t \in Threads : \A p \in Cached(t) : SlabAllocated(p)

(* ------------------------------------------------------------------ *)
(* One thread on a pool, passing any pointer to pool_free              *)
(* ------------------------------------------------------------------ *)

\* The pointers the caller passes to pool_free: null, every block of the
\* pool's slab, an address inside the slab's buffer off the block grid.
PoolAnyPointers ==
    {NULL, memory + 1} \cup {BlockPtr(i) : i \in 0 .. num_blocks - 1}

PoolAnyInit ==
    /\ PoolInit({CACHE_LINE_SIZE}, 1 .. MaxPerThread, {PoolBlocks}, FALSE)
    /\ ArenaInit({CACHE_LINE_SIZE})

PoolAnyNext ==
    \/ pool_alloc_cache(Main, FALSE)
    \/ \E p \in PoolAnyPointers : pool_free_cache(Main, p, FALSE)
    \/ PoolStep(Main)

PoolAnySpec == PoolAnyInit /\ [][PoolAnyNext]_vars

\* C21: every non-null pointer that slab_alloc, arena_alloc or pool_alloc
\* returns, after any sequence of operations on its engine, is a multiple
\* of CACHE_LINE_SIZE (the buffers of the slab and of the arena being
\* aligned to CACHE_LINE_SIZE).
C21_ReturnedPointersAligned ==
    /\ \A t \in Threads :
         (pc[t] = "a_done" /\ ret[t] # NULL) => ret[t] % CACHE_LINE_SIZE = 0
    /\ \A i \in 1 .. Len(allocs) : allocs[i].p % CACHE_LINE_SIZE = 0

(* ------------------------------------------------------------------ *)
(* Progress of the slab and of the arena under contention              *)
(* ------------------------------------------------------------------ *)

\* The engines whose operations compare-and-swap a shared counter.
Engines == {"slab", "arena"}

\* The threads of a run share one slab or one arena.
LockFreeInit ==
    /\ SlabInit({CACHE_LINE_SIZE}, {ConcBlocks}, FALSE)
    /\ PoolFields(1, FALSE)
    /\ ArenaFields({CACHE_LINE_SIZE * ArenaLines - 1})
    /\ engine \in Engines
    /\ OnePool

\* A step of a call in progress: the scheduler runs a thread that is inside
\* slab_alloc, slab_free or arena_alloc.
LockFreeStep ==
    \E t \in Threads :
        \/ engine = "slab" /\ SlabStep(t)
        \/ engine = "arena" /\ arena_alloc_cas(t)

LockFreeNext ==
    \E t \in Threads :
        \/ engine = "slab" /\ Cardinality(held[t]) < MaxHeld /\ CallAlloc(t)
        \/ engine = "slab" /\ \E p \in held[t] : CallFree(t, p)
        \/ engine = "slab" /\ SlabStep(t)
        \/ engine = "arena" /\ \E sz \in ArenaSizes : arena_alloc_load(t, sz)
        \/ engine = "arena" /\ arena_alloc_cas(t)
        \/ engine = "arena" /\ arena_reset(t)

\* Some thread that is inside a call keeps being scheduled.
LockFreeSpec ==
    LockFreeInit /\ [][LockFreeNext]_vars /\ WF_vars(LockFreeStep)

\* Thread t is inside slab_alloc, slab_free or arena_alloc.
Pending(t) ==
    \/ pc[t] \notin {"idle", "a_done", "f_done"}
    \/ apc[t] = "cas"

\* The step ends a call of thread t.
Completes(t) ==
    \/ pc[t] \notin {"idle", "a_done", "f_done"}
         /\ pc'[t] \in {"a_done", "f_done"}
    \/ apc[t] = "cas" /\ apc'[t] = "idle"

\* The step is a compare-and-swap of thread t that succeeds.
SlabCasWon(t) ==
    \/ slab_alloc_cas(t) /\ free_idx = old_idx[t]
    \/ slab_free_cas(t) /\ free_idx = old_idx[t]

ArenaCasWon(t) ==
    /\ arena_alloc_cas(t)
    /\ (old_offset[t] + size[t]) % SizeMod <= capacity
    /\ offset = old_offset[t]

\* The step is a compare-and-swap of thread t that fails and sends the
\* call back: slab_alloc to its load, slab_free to its top, arena_alloc
\* round its loop.
Retries(t) ==
    \/ slab_alloc_cas(t) /\ pc'[t] = "a_load"
    \/ slab_free_cas(t) /\ pc'[t] = "f_magic"
    \/ arena_alloc_cas(t) /\ apc'[t] = "cas"

\* The counter of thread t's call is no longer what the call read.
Moved(t) ==
    IF apc[t] = "cas" THEN offset # old_offset[t] ELSE free_idx # old_idx[t]

\* If from some point on a call is always in progress, calls complete again
\* and again.
SomeCallCompletes ==
    \/ []<>(\A t \in Threads : ~Pending(t))
    \/ []<><<\E t \in Threads : Completes(t)>>_vars

\* C22 as stated: an operation re-attempts its compare-and-swap only if
\* another thread's compare-and-swap on the same counter succeeded after
\* the operation read it (the counter moved, and only a successful
\* compare-and-swap moves a counter), and some pending operation always
\* completes.
C22_OnlyCasMovesCounter ==
    /\ [][/\ \A t \in Threads : Retries(t) => Moved(t)
          /\ free_idx' # free_idx => \E u \in Threads : SlabCasWon(u)
          /\ offset' # offset => \E u \in Threads : ArenaCasWon(u)]_vars
    /\ SomeCallCompletes

\* C22: no slab or arena operation waits on another thread. An operation
\* re-attempts its compare-and-swap only if its counter moved after the
\* operation read it, which only another thread's successful
\* compare-and-swap or another thread's arena_reset (a plain store to
\* offset) does; so an operation that runs alone finishes without a retry,
\* and in every execution some pending operation always completes.
C22_LockFree ==
    /\ [][/\ \A t \in Threads : Retries(t) => Moved(t)
          /\ free_idx' # free_idx => \E u \in Threads : SlabCasWon(u)
          /\ offset' # offset =>
               \E u \in Threads : ArenaCasWon(u) \/ arena_reset(u)]_vars
    /\ SomeCallCompletes

\* Both threads are in arena_alloc and the compare-and-swap of one has
\* moved offset since the other read it.
C22_Witness ==
    /\ engine = "arena"
    /\ allocs # <<>>
    /\ \E t \in Threads :
         /\ apc[t] = "cas"
         /\ offset # old_offset[t]
         /\ (old_offset[t] + size[t]) % SizeMod <= capacity

(* ------------------------------------------------------------------ *)
(* The threads' first calls into the pool engine: init_tls             *)
(* ------------------------------------------------------------------ *)

\* No thread has called into the pool engine: tls_initialized is 0 and
\* tls_key holds no key.
TlsInit ==
    /\ SlabInit({CACHE_LINE_SIZE}, {1}, FALSE)
    /\ CacheFields(1, FALSE)
    /\ ArenaInit({CACHE_LINE_SIZE})
    /\ tls_initialized = 0
    /\ tls_key = "unset"
    /\ bpc = [t \in Threads |-> "start"]
    /\ key_creates = 0
    /\ early = [t \in Threads |-> FALSE]

\* What the bootstrap steps leave alone.
TlsFrame ==
    UNCHANGED <<slabVars, threadVars, histVars, arenaVars, blocks_per_thread,
                path, psnap, plog, alt, engine, multiVars>>

\* pool_create, valid arguments: init_tls's
\* if (atomic_exchange(&tls_initialized, 1)) return;
init_tls(t) ==
    /\ bpc[t] \in {"start", "live"}
    /\ tls_initialized' = 1
    /\ bpc' = [bpc EXCEPT ![t] =
                 IF tls_initialized = 0 THEN "key_create" ELSE "create"]
    /\ UNCHANGED <<tls_key, key_creates, early, tls>>
    /\ TlsFrame

\* pthread_key_create(&tls_key, free), by the thread whose exchange
\* returned 0.
init_tls_key_create(t) ==
    /\ bpc[t] = "key_create"
    /\ tls_key' = "created"
    /\ key_creates' = key_creates + 1
    /\ bpc' = [bpc EXCEPT ![t] = "create"]
    /\ UNCHANGED <<tls_initialized, early, tls>>
    /\ TlsFrame

\* The rest of pool_create: the pool is built and returned.
pool_create_return(t) ==
    /\ bpc[t] = "create"
    /\ bpc' = [bpc EXCEPT ![t] = "live"]
    /\ UNCHANGED <<tls_initialized, tls_key, key_creates, early, tls>>
    /\ TlsFrame

\* The thread calls pool_alloc or pool_free on a pool it created: it enters
\* get_thread_local_cache.
pool_call(t) ==
    /\ bpc[t] = "live"
    /\ bpc' = [bpc EXCEPT ![t] = "getspecific"]
    /\ UNCHANGED <<tls_initialized, tls_key, key_creates, early, tls>>
    /\ TlsFrame

\* cache = pthread_getspecific(tls_key); if (cache) return cache;
\* With a key, the thread's cache or NULL. With tls_key unset the call is
\* given a key that was never created: it returns NULL or a value that is
\* no cache of this thread.
tls_getspecific(t) ==
    /\ bpc[t] = "getspecific"
    /\ IF tls_key = "created"
       THEN /\ bpc' = [bpc EXCEPT ![t] =
                         IF tls[t].present THEN "live" ELSE "setspecific"]
            /\ UNCHANGED early
       ELSE /\ early' = [early EXCEPT ![t] = TRUE]
            /\ \E r \in {"setspecific", "wild"} :
                   bpc' = [bpc EXCEPT ![t] = r]
    /\ UNCHANGED <<tls_initialized, tls_key, key_creates, tls>>
    /\ TlsFrame

\* The cache is allocated; pthread_setspecific(tls_key, cache); return
\* cache. With tls_key unset the cache may or may not be registered.
tls_setspecific(t) ==
    /\ bpc[t] = "setspecific"
    /\ LET cache == get_thread_local_cache(t, FALSE)
       IN  IF tls_key = "created"
           THEN /\ tls' = [tls EXCEPT ![t] = cache]
                /\ UNCHANGED early
           ELSE /\ early' = [early EXCEPT ![t] = TRUE]
                /\ \E c \in {NoCache, cache} : tls' = [tls EXCEPT ![t] = c]
    /\ bpc' = [bpc EXCEPT ![t] = "live"]
    /\ UNCHANGED <<tls_initialized, tls_key, key_creates>>
    /\ TlsFrame

TlsNext ==
    \E t \in Threads :
        \/ init_tls(t)
        \/ init_tls_key_create(t)
        \/ pool_create_return(t)
        \/ pool_call(t)
        \/ tls_getspecific(t)
        \/ tls_setspecific(t)

TlsSpec == TlsInit /\ [][TlsNext]_vars

\* C23: when two threads make their first calls into the pool engine at
\* the same time, pthread_key_create is called exactly once (never twice),
\* and no thread passes tls_key to pthread_getspecific or
\* pthread_setspecific before pthread_key_create has stored the key.
C23_KeyCreatedOnceBeforeUse ==
    /\ key_creates <= 1
    /\ \A t \in Threads : ~early[t]

\* C31: for every interleaving of pool_alloc and pool_free calls by several
\* threads on one pool, each freeing only blocks it holds and each once, no
\* block is at the same time in the caches of two threads, twice in one
\* cache, or both in a cache and held by a caller.
C31_CachedBlocksExclusive ==
    /\ \A t, u \in Threads : t # u => Cached(t) \cap Cached(u) = {}
    /\ \A t \in Threads :
         \A i, j \in CacheIdx(t) :
             tls[t].local_cache[i] = tls[t].local_cache[j] => i = j
    /\ \A t, u \in Threads : Cached(t) \cap Owned(u) = {}

(* ------------------------------------------------------------------ *)
(* One thread on several pools: the cache under tls_key is the thread's *)
(* only cache, whichever pool the call is on                           *)
(* ------------------------------------------------------------------ *)

PoolIds == 1 .. NPools

\* A pool that pool_create has not built yet.
NoPool == [state |-> "none", blocks_per_thread |-> 0,
           global_slab |-> [ok |-> FALSE]]

\* The address aligned_alloc returns for the slab buffer of pool P: the
\* buffers do not overlap (a buffer of a destroyed pool is not handed out
\* again in these runs).
PoolMemory(P) == SlabMemory + (P - 1) * CACHE_LINE_SIZE * (PoolBlocks + 1)

\* The addresses of the blocks of pool P's slab.
PoolBlockPtrs(P) ==
    LET s == pools[P].global_slab
    IN  {s.memory + i * s.block_size : i \in 0 .. s.num_blocks - 1}

\* What a read past the end of local_cache may find instead of the pointer
\* written there.
Wild == 1

\* slab_alloc on slab s with no other thread running: its result and the
\* slab it leaves.
slab_alloc_on(s) ==
    IF s.free_idx = 0
    THEN [ret |-> NULL, slab |-> s]
    ELSE LET n == s.free_idx - 1
             b == s.free_list[n]
         IN  IF b < 0 \/ b >= s.num_blocks
             THEN [ret |-> NULL, slab |-> [s EXCEPT !.free_idx = n]]
             ELSE [ret |-> s.memory + b * s.block_size,
                   slab |-> [s EXCEPT !.free_idx = n,
                                      !.magic[b] = ALLOCATED_MARKER,
                                      !.isfree[b] = 0,
                                      !.free_count = (@ - 1) % SizeMod]]

\* slab_free(s, p) with no other thread running: its result and the slab it
\* leaves.
slab_free_on(s, p) ==
    LET b == IF p = NULL \/ p < s.memory THEN -1
             ELSE IF (p - s.memory) % s.block_size # 0 THEN -1
             ELSE IF (p - s.memory) \div s.block_size >= s.num_blocks THEN -1
             ELSE (p - s.memory) \div s.block_size
    IN  IF b = -1 THEN [ret |-> -1, slab |-> s]
        ELSE IF s.magic[b] # ALLOCATED_MARKER THEN [ret |-> -1, slab |-> s]
        ELSE IF s.isfree[b] # 0 THEN [ret |-> -1, slab |-> s]
        ELSE LET m == [s EXCEPT !.isfree[b] = 1, !.magic[b] = FREE_MARKER]
             IN  IF (s.free_idx + 1) % SizeMod > s.num_blocks
                 THEN [ret |-> -1, slab |-> m]
                 ELSE [ret |-> 0,
                       slab |-> [m EXCEPT
                                   !.free_list[s.free_idx] = b,
                                   !.free_idx = (@ + 1) % SizeMod,
                                   !.free_count = (@ + 1) % SizeMod]]

\* get_thread_local_cache(bpt): the cache registered under tls_key, or a
\* new one of bpt slots (malloc succeeds).
get_thread_local_cache_of(t, bpt) ==
    IF tls[t].present THEN tls[t]
    ELSE [present |-> TRUE, cache_size |-> bpt, cache_count |-> 0,
          local_cache |-> [i \in 0 .. bpt - 1 |-> NULL]]

\* What the calls on several pools leave alone.
MultiFrame ==
    UNCHANGED <<slabVars, threadVars, histVars, arenaVars, blocks_per_thread,
                path, psnap, plog, alt, tls_initialized, tls_key, bpc,
                key_creates, early, engine>>

PoolPairInit ==
    /\ SlabInit({CACHE_LINE_SIZE}, {1}, FALSE)
    /\ PoolFields(1, FALSE)
    /\ ArenaFields({CACHE_LINE_SIZE})
    /\ engine = "any"
    /\ pools = [P \in PoolIds |-> NoPool]
    /\ taken = {}
    /\ mlast = NoCall
    /\ parked = <<>>

\* pool_create(CACHE_LINE_SIZE, bpt, PoolBlocks) builds pool P.
pool_create_pool(P, bpt) ==
    /\ pools[P].state = "none"
    /\ LET pl == pool_create(CACHE_LINE_SIZE, bpt, PoolBlocks)
       IN  /\ pl.ok
           /\ pools' = [pools EXCEPT ![P] =
                          [state |-> "live",
                           blocks_per_thread |-> pl.blocks_per_thread,
                           global_slab |->
                               [pl.global_slab EXCEPT
                                  !.memory = PoolMemory(P)]]]
    /\ UNCHANGED <<tls, taken, mlast, parked>>
    /\ MultiFrame

\* pool_destroy(P): the slab and the pool are freed, the thread's cache is
\* not touched; the caller gives up the blocks it held from P.
pool_destroy(P) ==
    /\ pools[P].state = "live"
    /\ pools' = [pools EXCEPT ![P].state = "destroyed"]
    /\ taken' = {h \in taken : h[1] # P}
    /\ UNCHANGED <<tls, mlast, parked>>
    /\ MultiFrame

\* pool_alloc(P) by the one thread, whole call; the caller holds at most
\* PoolMaxHeld blocks.
pool_alloc_pool(P) ==
    /\ pools[P].state = "live"
    /\ Cardinality(taken) < PoolMaxHeld
    /\ LET cache == get_thread_local_cache_of(Main, pools[P].blocks_per_thread)
           n == cache.cache_count - 1
           r == slab_alloc_on(pools[P].global_slab)
       IN  IF cache.cache_count > 0
           THEN /\ tls' = [tls EXCEPT ![Main] =
                             [cache EXCEPT !.cache_count = n]]
                /\ parked' = SubSeq(parked, 1, n)
                /\ mlast' = [op |-> "alloc", pool |-> P, arg |-> NULL,
                             ret |-> cache.local_cache[n],
                             via |-> parked[n + 1]]
                /\ taken' = taken \cup {<<P, cache.local_cache[n]>>}
                /\ UNCHANGED pools
           ELSE /\ tls' = [tls EXCEPT ![Main] = cache]
                /\ pools' = [pools EXCEPT ![P].global_slab = r.slab]
                /\ mlast' = [op |-> "alloc", pool |-> P, arg |-> NULL,
                             ret |-> r.ret, via |-> 0]
                /\ taken' = IF r.ret = NULL THEN taken
                            ELSE taken \cup {<<P, r.ret>>}
                /\ UNCHANGED parked
    /\ MultiFrame

\* pool_free(P, p) by the one thread, whole call, p not NULL. The store to
\* local_cache[cache_count] lands past the array when cache_count is
\* cache_size or more: what a later read finds there is p or anything else.
pool_free_pool(P, p) ==
    /\ pools[P].state = "live"
    /\ p # NULL
    /\ LET cache == get_thread_local_cache_of(Main, pools[P].blocks_per_thread)
           n == cache.cache_count
           r == slab_free_on(pools[P].global_slab, p)
       IN  IF n < pools[P].blocks_per_thread
           THEN /\ \E v \in IF n < cache.cache_size THEN {p} ELSE {p, Wild} :
                      tls' = [tls EXCEPT ![Main] =
                                [cache EXCEPT
                                   !.cache_count = n + 1,
                                   !.local_cache =
                                       [i \in DOMAIN @ \cup {n} |->
                                           IF i = n THEN v ELSE @[i]]]]
                /\ parked' = Append(parked, P)
                /\ mlast' = [op |-> "free", pool |-> P, arg |-> p,
                             ret |-> 0, via |-> 0]
                /\ UNCHANGED pools
           ELSE /\ tls' = [tls EXCEPT ![Main] = cache]
                /\ pools' = [pools EXCEPT ![P].global_slab = r.slab]
                /\ mlast' = [op |-> "free", pool |-> P, arg |-> p,
                             ret |-> r.ret, via |-> 0]
                /\ UNCHANGED parked
    /\ taken' = taken \ {<<P, p>>}
    /\ MultiFrame

\* The thread creates, uses and destroys the pools; it passes to
\* pool_free(P, .) only blocks that pool_alloc(P) returned and it holds.
PoolPairNext ==
    \E P \in PoolIds :
        \/ \E bpt \in 1 .. MaxPerThread : pool_create_pool(P, bpt)
        \/ pool_destroy(P)
        \/ pool_alloc_pool(P)
        \/ \E h \in taken : h[1] = P /\ pool_free_pool(P, h[2])

PoolPairSpec == PoolPairInit /\ [][PoolPairNext]_vars

\* C32: a thread's cache belongs to one pool. For a thread that uses two
\* pools (both live, or the second created after the first was destroyed)
\* every block pool_alloc(P) returns is a block of P's own slab buffer, and
\* a pointer that pool_free(P, .) parked is never returned by pool_alloc
\* of another pool.
C32_CacheOfOnePool ==
    (mlast.op = "alloc" /\ mlast.ret # NULL) =>
        /\ mlast.ret \in PoolBlockPtrs(mlast.pool)
        /\ mlast.via \in {0, mlast.pool}

\* C33: in every reachable state the thread's cache_count is at most
\* blocks_per_thread of the pool its last call was on and at most
\* cache_size, the number of slots of local_cache, so pool_free never
\* writes past the array, also when the thread uses pools created with
\* different blocks_per_thread values.
C33_CacheCountInBounds ==
    /\ tls[Main].cache_count <= tls[Main].cache_size
    /\ mlast.op # "none" =>
           tls[Main].cache_count <= pools[mlast.pool].blocks_per_thread

====
